---------------------------- MODULE Spec2Model ----------------------------
(***************************************************************************)
(* A model of legacy.go (package hatchet): AddLegacyString, which renders  *)
(* a structured log record (Logv2Info) as a legacy one-line message and    *)
(* attaches the Remote side artifact, and toLegacyString, the recursive    *)
(* serializer of attribute values.                                         *)
(*                                                                         *)
(* Go strings are TLA+ strings (Len, \o and SubSeq act on them).  A Go     *)
(* interface{} value is a record tagged by its dynamic type in field t.    *)
(* A run-time panic (index or slice out of range, failed type assertion)   *)
(* is the value Panic inside an expression and pc = "panic" in the state.  *)
(***************************************************************************)
EXTENDS Integers, Sequences, FiniteSets, TLC

VARIABLES
    doc,      \* the *Logv2Info the current call works on
    pre,      \* history: doc as it was when the current call started
    arr,      \* AddLegacyString's local token list
    idx,      \* position of the range loop over doc.Attr (1-based)
    remote,   \* AddLegacyString's local Remote{}
    pc,       \* position of the current call
    prev,     \* history: the previous completed call, or NoCall
    val,      \* the interface{} handed to a direct toLegacyString call
    out,      \* what that call returned and logged, or NotRun
    rpc,      \* position of the direct toLegacyString call
    err       \* AddLegacyString's local err, as returned

vars == <<doc, pre, arr, idx, remote, pc, prev, val, out, rpc, err>>

----------------------------------------------------------------------------
(* Bounds of the model. *)

\* longest doc.Attr drawn for a record
MaxAttrs == 2

\* longest bson.D and bson.A drawn for a direct toLegacyString call
MaxLen == 2

\* how many times a drawn value is wrapped in a further document, array or element
MaxDepth == 1

----------------------------------------------------------------------------
(* Go values. *)

Nil == [t |-> "nil"]
Bool(b) == [t |-> "bool", b |-> b]
Int64(n) == [t |-> "int", n |-> n]
Str(s) == [t |-> "string", s |-> s]
DateTime(n) == [t |-> "DateTime", n |-> n]
Binary(sub, data) == [t |-> "Binary", Subtype |-> sub, Data |-> data]
ObjectID(hex) == [t |-> "ObjectID", hex |-> hex]
Timestamp(T, I) == [t |-> "Timestamp", T |-> T, I |-> I]
Regex(p, o) == [t |-> "Regex", Pattern |-> p, Options |-> o]
Decimal128(text) == [t |-> "Decimal128", text |-> text]
E(k, v) == [t |-> "E", Key |-> k, Value |-> v]
D(es) == [t |-> "D", es |-> es]
A(vs) == [t |-> "A", vs |-> vs]
Panic == [t |-> "panic"]

IsString(v) == v.t = "string"

----------------------------------------------------------------------------
(* package strings, encoding/hex, encoding/base64 *)

RECURSIVE stringsIndex(_, _)
\* strings.Index(s, c) for a one-byte c: 0-based place of the first c, or -1
stringsIndex(s, c) ==
    IF s = "" THEN -1
    ELSE IF Head(s) = c THEN 0
    ELSE LET r == stringsIndex(Tail(s), c) IN IF r < 0 THEN -1 ELSE r + 1

RECURSIVE stringsSplit(_, _)
\* strings.Split(s, c) for a one-byte c: never empty, n separators give n+1 parts
stringsSplit(s, c) ==
    LET k == stringsIndex(s, c) IN
    IF k < 0 THEN <<s>>
    ELSE <<SubSeq(s, 1, k)>> \o stringsSplit(SubSeq(s, k + 2, Len(s)), c)

RECURSIVE stringsJoin(_, _)
\* strings.Join(elems, sep)
stringsJoin(elems, sep) ==
    IF elems = <<>> THEN ""
    ELSE IF Len(elems) = 1 THEN elems[1]
    ELSE elems[1] \o sep \o stringsJoin(Tail(elems), sep)

HexDigits == "0123456789abcdef"

HexByte(b) ==
    SubSeq(HexDigits, (b \div 16) + 1, (b \div 16) + 1)
        \o SubSeq(HexDigits, (b % 16) + 1, (b % 16) + 1)

RECURSIVE hexEncodeToString(_)
\* hex.EncodeToString: two lower-case digits per byte
hexEncodeToString(data) ==
    IF data = <<>> THEN "" ELSE HexByte(Head(data)) \o hexEncodeToString(Tail(data))

B64Alphabet == "ABCDEFGHIJKLMNOPQRSTUVWXYZabcdefghijklmnopqrstuvwxyz0123456789+/"

B64Char(n) == SubSeq(B64Alphabet, n + 1, n + 1)

RECURSIVE base64EncodeToString(_)
\* base64.StdEncoding.EncodeToString: 3 bytes to 4 characters, '=' padding
base64EncodeToString(data) ==
    IF data = <<>> THEN ""
    ELSE IF Len(data) = 1 THEN
        B64Char(data[1] \div 4) \o B64Char((data[1] % 4) * 16) \o "=="
    ELSE IF Len(data) = 2 THEN
        B64Char(data[1] \div 4) \o B64Char((data[1] % 4) * 16 + data[2] \div 16)
            \o B64Char((data[2] % 16) * 4) \o "="
    ELSE
        B64Char(data[1] \div 4) \o B64Char((data[1] % 4) * 16 + data[2] \div 16)
            \o B64Char((data[2] % 16) * 4 + data[3] \div 64) \o B64Char(data[3] % 64)
            \o base64EncodeToString(SubSeq(data, 4, Len(data)))

\* x[lo:hi] of a Go string: panics unless 0 <= lo <= hi <= len(x)
Slice(x, lo, hi) ==
    IF 0 <= lo /\ lo <= hi /\ hi <= Len(x) THEN Str(SubSeq(x, lo + 1, hi)) ELSE Panic

----------------------------------------------------------------------------
(* package fmt: the %v verb *)

RECURSIVE FmtInts(_)
\* a []byte under %v: the numbers separated by spaces
FmtInts(data) ==
    IF data = <<>> THEN ""
    ELSE IF Len(data) = 1 THEN ToString(data[1])
    ELSE ToString(data[1]) \o " " \o FmtInts(Tail(data))

RECURSIVE FmtV(_)
\* fmt.Sprintf("%v", v)
FmtV(v) ==
    CASE v.t = "nil" -> "<nil>"
      [] v.t = "bool" -> IF v.b THEN "true" ELSE "false"
      [] v.t = "int" -> ToString(v.n)
      [] v.t = "string" -> v.s
      [] v.t = "DateTime" -> ToString(v.n)
      [] v.t = "Binary" -> "{" \o ToString(v.Subtype) \o " [" \o FmtInts(v.Data) \o "]}"
      [] v.t = "ObjectID" -> "ObjectID(\"" \o v.hex \o "\")"
      [] v.t = "Timestamp" -> "{" \o ToString(v.T) \o " " \o ToString(v.I) \o "}"
      [] v.t = "Regex" ->
            "{\"pattern\": \"" \o v.Pattern \o "\", \"options\": \"" \o v.Options \o "\"}"
      [] v.t = "Decimal128" -> v.text
      [] v.t = "E" -> "{" \o v.Key \o " " \o FmtV(v.Value) \o "}"
      [] v.t = "D" ->
            "[" \o stringsJoin([k \in 1..Len(v.es) |-> FmtV(v.es[k])], " ") \o "]"
      [] v.t = "A" ->
            "[" \o stringsJoin([k \in 1..Len(v.vs) |-> FmtV(v.vs[k])], " ") \o "]"

----------------------------------------------------------------------------
(* toLegacyString.  The result is [ret, log]: the interface{} returned     *)
(* (Panic when the call aborts) and the lines written with log.Println /   *)
(* log.Printf on the way.                                                  *)

Ret(v) == [ret |-> v, log |-> <<>>]

\* the %T of the values that reach toLegacyString's default branch
TypeName(v) ==
    CASE v.t = "Decimal128" -> "primitive.Decimal128"
      [] OTHER -> v.t

\* case primitive.Binary with Subtype 4: the five slices of the hex text
UUIDString(x) ==
    LET p1 == Slice(x, 0, 8)
        p2 == Slice(x, 8, 12)
        p3 == Slice(x, 12, 16)
        p4 == Slice(x, 16, 20)
        p5 == Slice(x, 20, Len(x))
    IN  IF \E p \in {p1, p2, p3, p4, p5} : p.t = "panic" THEN Panic
        ELSE Str("{ $uuid: \"" \o p1.s \o "-" \o p2.s \o "-" \o p3.s \o "-" \o p4.s
                     \o "-" \o p5.s \o "\"}")

\* a faulty variant of ElementString: the test is Index >= 0, so a leading '.' counts
ElementString_AnyDot(key, valtext) ==
    IF stringsIndex(key, ".") >= 0
    THEN " { \"" \o key \o "\":" \o valtext \o " } "
    ELSE " { " \o key \o ":" \o valtext \o " } "

\* case bson.E: the key is quoted when strings.Index(data.Key, ".") > 0
ElementString(key, valtext) ==
    IF stringsIndex(key, ".") > 0
    THEN " { \"" \o key \o "\":" \o valtext \o " } "
    ELSE " { " \o key \o ":" \o valtext \o " } "

\* case bson.D: the layout around the joined entries
DocumentString(entries) == " { " \o stringsJoin(entries, ", ") \o " }"

\* one entry of a bson.D (inArray: of a bson.D that is an element of a bson.A)
EntryString(inArray, key, valtext) ==
    IF inArray THEN "{ " \o key \o ":" \o valtext \o " }" ELSE key \o ":" \o valtext

RECURSIVE toLegacyString(_)
RECURSIVE RangeEntries(_, _)
RECURSIVE RangeArray(_)

\* the loops over a bson.D: [strs, log, ok], ok = FALSE when a nested call aborted
RangeEntries(es, inArray) ==
    IF es = <<>> THEN [strs |-> <<>>, log |-> <<>>, ok |-> TRUE]
    ELSE LET r == toLegacyString(es[1].Value) IN
         IF r.ret.t = "panic" THEN [strs |-> <<>>, log |-> r.log, ok |-> FALSE]
         ELSE LET rest == RangeEntries(Tail(es), inArray) IN
              [strs |-> <<EntryString(inArray, es[1].Key, FmtV(r.ret))>> \o rest.strs,
               log |-> r.log \o rest.log,
               ok |-> rest.ok]

\* the loop over a bson.A: one joined string per element
RangeArray(vs) ==
    IF vs = <<>> THEN [strs |-> <<>>, log |-> <<>>, ok |-> TRUE]
    ELSE LET one == IF vs[1].t = "D" THEN RangeEntries(vs[1].es, TRUE)
                    ELSE LET r == toLegacyString(vs[1]) IN
                         IF r.ret.t = "panic"
                         THEN [strs |-> <<>>, log |-> r.log, ok |-> FALSE]
                         ELSE [strs |-> <<FmtV(r.ret)>>, log |-> r.log, ok |-> TRUE]
         IN  IF ~one.ok THEN one
             ELSE LET rest == RangeArray(Tail(vs)) IN
                  [strs |-> <<stringsJoin(one.strs, ", ")>> \o rest.strs,
                   log |-> one.log \o rest.log,
                   ok |-> rest.ok]

toLegacyString(o) ==
    CASE o.t = "nil" -> Ret(o)
      [] o.t = "bool" -> Ret(Str(" " \o FmtV(o)))
      [] o.t = "A" ->
            LET r == RangeArray(o.vs) IN
            IF r.ok THEN [ret |-> Str("[" \o stringsJoin(r.strs, ", ") \o "]"), log |-> r.log]
            ELSE [ret |-> Panic, log |-> r.log]
      [] o.t = "D" ->
            LET r == RangeEntries(o.es, FALSE) IN
            IF r.ok THEN [ret |-> Str(DocumentString(r.strs)), log |-> r.log]
            ELSE [ret |-> Panic, log |-> r.log]
      [] o.t = "E" ->
            LET r == toLegacyString(o.Value) IN
            IF r.ret.t = "panic" THEN r
            ELSE [ret |-> Str(ElementString(o.Key, FmtV(r.ret))), log |-> r.log]
      [] o.t = "int" -> Ret(o)
      [] o.t = "Binary" ->
            IF o.Subtype = 0 THEN
                Ret(Str("{ $binary:{ base64: \"" \o base64EncodeToString(o.Data)
                            \o "\", subtype:0}}"))
            ELSE IF o.Subtype = 4 THEN Ret(UUIDString(hexEncodeToString(o.Data)))
            ELSE [ret |-> o, log |-> <<"unhandled subtype " \o ToString(o.Subtype)>>]
      [] o.t = "ObjectID" -> Ret(Str("{ $oid: \"" \o o.hex \o "\"}"))
      [] o.t = "Timestamp" ->
            Ret(Str("{ t:" \o ToString(o.T) \o ", i:" \o ToString(o.I) \o "}"))
      [] o.t \in {"string", "DateTime"} -> Ret(Str(" \"" \o FmtV(o) \o "\""))
      [] o.t = "Regex" -> Ret(Str(" /" \o o.Pattern \o "/" \o o.Options))
      [] OTHER ->
            [ret |-> o,
             log |-> <<"unhandled data type " \o TypeName(o) \o ", " \o FmtV(o)>>]

----------------------------------------------------------------------------
(* Logv2Info, Remote and the helpers AddLegacyString calls. *)

\* Remote{}: the zero value of the struct
ZeroRemote == [Value |-> "", Port |-> "", Accepted |-> 0, Ended |-> 0, Conns |-> 0]

\* a *Remote: <<>> is nil, <<r>> points to r
NilRemote == <<>>

RECURSIVE MapGet(_, _)
\* attrMap[key] with attrMap := doc.Attr.Map(): the value of the last entry with
\* that key, and nil when there is none
MapGet(attrs, key) ==
    IF attrs = <<>> THEN Nil
    ELSE IF attrs[Len(attrs)].Key = key THEN attrs[Len(attrs)].Value
    ELSE MapGet(SubSeq(attrs, 1, Len(attrs) - 1), key)

\* ToInt of a connectionCount value
ToInt(v) == IF v.t = "int" THEN v.n ELSE 0

RECURSIVE ExtJSON(_)
\* the text bson.MarshalExtJSON(v, false, false) writes for a value inside a document
ExtJSON(v) ==
    CASE v.t = "nil" -> "null"
      [] v.t = "bool" -> IF v.b THEN "true" ELSE "false"
      [] v.t = "int" -> ToString(v.n)
      [] v.t = "string" -> "\"" \o v.s \o "\""
      [] v.t = "D" ->
            "{" \o stringsJoin([k \in 1..Len(v.es) |->
                        "\"" \o v.es[k].Key \o "\":" \o ExtJSON(v.es[k].Value)], ",")
                \o "}"
      [] v.t = "A" ->
            "[" \o stringsJoin([k \in 1..Len(v.vs) |-> ExtJSON(v.vs[k])], ",") \o "]"

\* b, _ := bson.MarshalExtJSON(attr.Value, false, false); string(b): only a document
\* marshals, anything else leaves b nil
MarshalExtJSON(v) == IF v.t = "D" THEN ExtJSON(v) ELSE ""

----------------------------------------------------------------------------
(* AddLegacyString, piece by piece. *)

\* a faulty variant of MessageTokens: the "Slow query" test of line 22 is missing
MessageTokens_NoSlowQuery(msg) ==
    IF msg = "Connection ended" THEN <<"end connection">>
    ELSE IF msg = "Connection accepted" THEN <<"connection accepted">>
    ELSE IF msg = "Authentication succeeded" THEN <<"Successfully authenticated">>
    ELSE <<msg>>

\* lines 22-32: the token the message contributes
MessageTokens(msg) ==
    IF msg # "Slow query" THEN
        IF msg = "Connection ended" THEN <<"end connection">>
        ELSE IF msg = "Connection accepted" THEN <<"connection accepted">>
        ELSE IF msg = "Authentication succeeded" THEN <<"Successfully authenticated">>
        ELSE <<msg>>
    ELSE <<>>

\* lines 34, 37, 49, 78: which branch of the component rule runs
Branch(d) ==
    IF d.Component = "CONTROL" /\ MapGet(d.Attr, "host").t # "nil" THEN "CONTROL"
    ELSE IF d.Component = "ACCESS" THEN "ACCESS"
    ELSE IF d.Component = "NETWORK" THEN "NETWORK"
    ELSE "default"

\* lines 35-36
ControlToken(attrs) ==
    "pid=" \o FmtV(MapGet(attrs, "pid")) \o " port=" \o FmtV(MapGet(attrs, "port"))
        \o " " \o FmtV(MapGet(attrs, "architecture"))
        \o " host=" \o FmtV(MapGet(attrs, "host"))

\* lines 39-47: the tokens one attribute adds under ACCESS
AccessTokens(attr) ==
    IF attr.Key = "authenticationDatabase" THEN <<"on " \o FmtV(attr.Value)>>
    ELSE IF attr.Key = "principalName" THEN <<"as principal " \o FmtV(attr.Value)>>
    ELSE IF attr.Key = "remote" THEN <<"from client " \o FmtV(attr.Value)>>
    ELSE IF attr.Key = "durationMillis" THEN <<FmtV(attr.Value) \o "ms">>
    ELSE <<>>

\* a faulty variant of NetworkRemote: toks[0] and toks[1] are taken the wrong way round
NetworkRemote_PortFirst(attr, msg, r) ==
    IF ~IsString(attr.Value) THEN [ok |-> FALSE, toks |-> <<>>, remote |-> r]
    ELSE LET toks == stringsSplit(attr.Value.s, ":") IN
         IF Len(toks) < 2 THEN [ok |-> FALSE, toks |-> <<>>, remote |-> r]
         ELSE IF msg = "Connection ended" THEN
              [ok |-> TRUE, toks |-> <<FmtV(attr.Value)>>,
               remote |-> [r EXCEPT !.Value = toks[2], !.Port = toks[1], !.Ended = 1]]
         ELSE [ok |-> TRUE, toks |-> <<"from " \o FmtV(attr.Value)>>,
               remote |-> [r EXCEPT !.Value = toks[2], !.Port = toks[1], !.Accepted = 1]]

\* a faulty variant of NetworkRemote: the length of toks is tested before toks[1] is
\* read, and a value without ':' gets an empty Port
NetworkRemote_Guarded(attr, msg, r) ==
    IF ~IsString(attr.Value) THEN [ok |-> FALSE, toks |-> <<>>, remote |-> r]
    ELSE LET toks == stringsSplit(attr.Value.s, ":")
             port == IF Len(toks) < 2 THEN "" ELSE toks[2]
         IN  IF msg = "Connection ended" THEN
                [ok |-> TRUE, toks |-> <<FmtV(attr.Value)>>,
                 remote |-> [r EXCEPT !.Value = toks[1], !.Port = port, !.Ended = 1]]
             ELSE [ok |-> TRUE, toks |-> <<"from " \o FmtV(attr.Value)>>,
                   remote |-> [r EXCEPT !.Value = toks[1], !.Port = port, !.Accepted = 1]]

\* lines 53-62: a remote attribute; ok = FALSE when the type assertion or toks[1] panics
NetworkRemote(attr, msg, r) ==
    IF ~IsString(attr.Value) THEN [ok |-> FALSE, toks |-> <<>>, remote |-> r]
    ELSE LET toks == stringsSplit(attr.Value.s, ":") IN
         IF Len(toks) < 2 THEN [ok |-> FALSE, toks |-> <<>>, remote |-> r]
         ELSE IF msg = "Connection ended" THEN
              [ok |-> TRUE, toks |-> <<FmtV(attr.Value)>>,
               remote |-> [r EXCEPT !.Value = toks[1], !.Port = toks[2], !.Ended = 1]]
         ELSE [ok |-> TRUE, toks |-> <<"from " \o FmtV(attr.Value)>>,
               remote |-> [r EXCEPT !.Value = toks[1], !.Port = toks[2], !.Accepted = 1]]

\* a faulty variant of NetworkAttr: connectionId is rendered whatever the message
NetworkAttr_IdAlways(attr, msg, r) ==
    IF attr.Key = "remote" THEN NetworkRemote(attr, msg, r)
    ELSE IF attr.Key = "client" THEN
        [ok |-> TRUE, toks |-> <<FmtV(attr.Value) \o ":">>, remote |-> r]
    ELSE IF attr.Key = "connectionId" THEN
        [ok |-> TRUE, toks |-> <<"#" \o FmtV(attr.Value)>>, remote |-> r]
    ELSE IF attr.Key = "connectionCount" THEN
        [ok |-> TRUE, toks |-> <<"(" \o FmtV(attr.Value) \o " connections now open)">>,
         remote |-> [r EXCEPT !.Conns = ToInt(attr.Value)]]
    ELSE IF attr.Key = "doc" THEN
        [ok |-> TRUE, toks |-> <<MarshalExtJSON(attr.Value)>>, remote |-> r]
    ELSE [ok |-> TRUE, toks |-> <<>>, remote |-> r]

\* lines 52-73: what one attribute does under NETWORK
NetworkAttr(attr, msg, r) ==
    IF attr.Key = "remote" THEN NetworkRemote(attr, msg, r)
    ELSE IF attr.Key = "client" THEN
        [ok |-> TRUE, toks |-> <<FmtV(attr.Value) \o ":">>, remote |-> r]
    ELSE IF attr.Key = "connectionId" /\ msg # "Connection ended" THEN
        [ok |-> TRUE, toks |-> <<"#" \o FmtV(attr.Value)>>, remote |-> r]
    ELSE IF attr.Key = "connectionCount" THEN
        [ok |-> TRUE, toks |-> <<"(" \o FmtV(attr.Value) \o " connections now open)">>,
         remote |-> [r EXCEPT !.Conns = ToInt(attr.Value)]]
    ELSE IF attr.Key = "doc" THEN
        [ok |-> TRUE, toks |-> <<MarshalExtJSON(attr.Value)>>, remote |-> r]
    ELSE [ok |-> TRUE, toks |-> <<>>, remote |-> r]

\* lines 80-87: what one attribute does under the default rule
DefaultAttr(attr) ==
    IF attr.Key = "type" \/ attr.Key = "ns" THEN
        IF IsString(attr.Value) THEN [ok |-> TRUE, toks |-> <<attr.Value.s>>]
        ELSE [ok |-> FALSE, toks |-> <<>>]
    ELSE IF attr.Key = "durationMillis" THEN
        [ok |-> TRUE, toks |-> <<FmtV(attr.Value) \o "ms">>]
    ELSE LET r == toLegacyString(attr.Value) IN
         IF r.ret.t = "panic" THEN [ok |-> FALSE, toks |-> <<>>]
         ELSE [ok |-> TRUE, toks |-> <<attr.Key \o ":" \o FmtV(r.ret)>>]

\* line 94
JoinTokens(tokens) == stringsJoin(tokens, " ")

----------------------------------------------------------------------------
(* The records the calls are made on. *)

SeqsUpTo(S, n) == UNION {[1..k -> S] : k \in 0..n}

Reorderings(q) ==
    {[k \in 1..Len(q) |-> q[p[k]]] :
        p \in {f \in [1..Len(q) -> 1..Len(q)] :
                 \A a, b \in 1..Len(q) : a # b => f[a] # f[b]}}

Components == {"CONTROL", "ACCESS", "NETWORK", "COMMAND"}

Msgs ==
    {"Slow query", "Connection ended", "Connection accepted",
     "Authentication succeeded", "Index build", ""}

ShortUUID == Binary(4, <<0, 17, 34>>)

AttrPool(c) ==
    CASE c = "CONTROL" ->
            {E("host", Str("x.example.com")), E("host", Str("db2")), E("host", Nil),
             E("pid", Int64(1234)),
             E("pid", Int64(99)), E("port", Int64(27017)),
             E("architecture", Str("64-bit")), E("remote", Str("127.0.0.1:54321"))}
      [] c = "ACCESS" ->
            {E("authenticationDatabase", Str("admin")), E("principalName", Str("alice")),
             E("remote", Str("127.0.0.1:54321")), E("durationMillis", Int64(12)),
             E("mechanism", Str("SCRAM-SHA-256"))}
      [] c = "NETWORK" ->
            {E("remote", Str("127.0.0.1:54321")), E("remote", Str("localhost")),
             E("remote", Str(":80")), E("remote", Str("h:p:x")), E("remote", Int64(5)),
             E("client", Str("conn12")), E("connectionId", Int64(7)),
             E("connectionCount", Int64(3)),
             E("doc", D(<<E("driver", Str("go")), E("v", Int64(1))>>)),
             E("doc", Str("go")), E("uuid", ShortUUID)}
      [] OTHER ->
            {E("type", Str("command")), E("ns", Str("test.coll")), E("type", Int64(1)),
             E("durationMillis", Int64(12)), E("remote", Str("127.0.0.1:54321")),
             E("command", D(<<E("find", Str("coll"))>>)), E("uuid", ShortUUID),
             E("ok", Bool(TRUE)), E("cursor", Nil)}

StaleRemote ==
    [Value |-> "10.0.0.9", Port |-> "27017", Accepted |-> 1, Ended |-> 0, Conns |-> 0]

\* Message and Remote as a record holds them before a call: never rendered, or
\* rendered before
Priors ==
    {[Message |-> "", Remote |-> NilRemote],
     [Message |-> "stale line", Remote |-> <<StaleRemote>>]}

Records ==
    UNION {{[Component |-> c, Msg |-> m, Attr |-> a,
             Message |-> p.Message, Remote |-> p.Remote] :
                m \in Msgs, a \in SeqsUpTo(AttrPool(c), MaxAttrs), p \in Priors} :
           c \in Components}

\* the records a caller hands over after d0 came back as d1: the same record again,
\* one with the same (Component, Msg, Attr) and other Message and Remote, and one
\* with the attributes in another order
Variants(d0, d1) ==
    {d1}
        \cup {[d0 EXCEPT !.Message = p.Message, !.Remote = p.Remote] : p \in Priors}
        \cup {[d0 EXCEPT !.Attr = q] : q \in Reorderings(d0.Attr)}

NoCall == <<>>
NotRun == <<>>
NoDoc == [Component |-> "", Msg |-> "", Attr |-> <<>>, Message |-> "", Remote |-> NilRemote]

----------------------------------------------------------------------------
(* AddLegacyString as a state machine. *)

Init ==
    /\ doc \in Records
    /\ pre = doc
    /\ arr = <<>>
    /\ idx = 1
    /\ remote = ZeroRemote
    /\ pc = "ready"
    /\ prev = NoCall
    /\ err = "nil"
    /\ val = Nil
    /\ out = NotRun
    /\ rpc = "off"

\* lines 17-32, and the choice of the branch at 34, 37, 49 or 78
Begin ==
    /\ pc = "ready"
    /\ arr' = MessageTokens(doc.Msg)
    /\ idx' = 1
    /\ remote' = ZeroRemote
    /\ pc' = Branch(doc)
    /\ UNCHANGED <<doc, pre, prev, val, out, rpc, err>>

\* lines 34-36
Control ==
    /\ pc = "CONTROL"
    /\ arr' = Append(arr, ControlToken(doc.Attr))
    /\ pc' = "join"
    /\ UNCHANGED <<doc, pre, idx, remote, prev, val, out, rpc, err>>

\* a faulty variant of AccessLoop: the token is put in front of the list
AccessLoop_Prepend ==
    /\ pc = "ACCESS"
    /\ idx <= Len(doc.Attr)
    /\ arr' = AccessTokens(doc.Attr[idx]) \o arr
    /\ idx' = idx + 1
    /\ UNCHANGED <<doc, pre, remote, pc, prev, val, out, rpc, err>>

\* lines 38-48: one turn of the loop
AccessLoop ==
    /\ pc = "ACCESS"
    /\ idx <= Len(doc.Attr)
    /\ arr' = arr \o AccessTokens(doc.Attr[idx])
    /\ idx' = idx + 1
    /\ UNCHANGED <<doc, pre, remote, pc, prev, val, out, rpc, err>>

\* lines 51-74: one turn of the loop
NetworkLoop ==
    /\ pc = "NETWORK"
    /\ idx <= Len(doc.Attr)
    /\ LET s == NetworkAttr(doc.Attr[idx], doc.Msg, remote) IN
        IF s.ok
        THEN /\ arr' = arr \o s.toks
             /\ remote' = s.remote
             /\ idx' = idx + 1
             /\ pc' = pc
        ELSE /\ pc' = "panic"
             /\ UNCHANGED <<arr, remote, idx>>
    /\ UNCHANGED <<doc, pre, prev, val, out, rpc, err>>

\* a faulty variant of NetworkEnd: the Remote is attached without the test of line 75
NetworkEnd_Always ==
    /\ pc = "NETWORK"
    /\ idx > Len(doc.Attr)
    /\ doc' = [doc EXCEPT !.Remote = <<remote>>]
    /\ pc' = "join"
    /\ UNCHANGED <<pre, arr, idx, remote, prev, val, out, rpc, err>>

\* lines 75-77
NetworkEnd ==
    /\ pc = "NETWORK"
    /\ idx > Len(doc.Attr)
    /\ doc' = IF remote.Value # "" THEN [doc EXCEPT !.Remote = <<remote>>] ELSE doc
    /\ pc' = "join"
    /\ UNCHANGED <<pre, arr, idx, remote, prev, val, out, rpc, err>>

\* lines 79-88: one turn of the loop
DefaultLoop ==
    /\ pc = "default"
    /\ idx <= Len(doc.Attr)
    /\ LET s == DefaultAttr(doc.Attr[idx]) IN
        IF s.ok
        THEN /\ arr' = arr \o s.toks
             /\ idx' = idx + 1
             /\ pc' = pc
        ELSE /\ pc' = "panic"
             /\ UNCHANGED <<arr, idx>>
    /\ UNCHANGED <<doc, pre, remote, prev, val, out, rpc, err>>

\* lines 48 and 88: the ACCESS and default loops run out of attributes
LoopEnd ==
    /\ pc \in {"ACCESS", "default"}
    /\ idx > Len(doc.Attr)
    /\ pc' = "join"
    /\ UNCHANGED <<doc, pre, arr, idx, remote, prev, val, out, rpc, err>>

\* a faulty variant of Return: the line is added to the Message the record holds
Return_Appending ==
    /\ pc = "join"
    /\ doc' = IF Len(arr) = 0 THEN doc
              ELSE [doc EXCEPT !.Message = doc.Message \o JoinTokens(arr)]
    /\ err' = "nil"
    /\ pc' = "done"
    /\ UNCHANGED <<pre, arr, idx, remote, prev, val, out, rpc>>

\* a faulty variant of Return: Message is written even when there is no token
Return_AlwaysWrites ==
    /\ pc = "join"
    /\ doc' = [doc EXCEPT !.Message = JoinTokens(arr)]
    /\ err' = "nil"
    /\ pc' = "done"
    /\ UNCHANGED <<pre, arr, idx, remote, prev, val, out, rpc>>

\* lines 91-95
Return ==
    /\ pc = "join"
    /\ doc' = IF Len(arr) = 0 THEN doc ELSE [doc EXCEPT !.Message = JoinTokens(arr)]
    /\ err' = "nil"
    /\ pc' = "done"
    /\ UNCHANGED <<pre, arr, idx, remote, prev, val, out, rpc>>

\* the caller, after a call returned, calls AddLegacyString on a next record
NextRecord ==
    /\ pc = "done"
    /\ prev = NoCall
    /\ \E d \in Variants(pre, doc) :
        /\ doc' = d
        /\ pre' = d
    /\ prev' = <<[pre |-> pre, post |-> doc, arr |-> arr]>>
    /\ arr' = <<>>
    /\ idx' = 1
    /\ remote' = ZeroRemote
    /\ pc' = "ready"
    /\ UNCHANGED <<val, out, rpc, err>>

Next ==
    \/ Begin
    \/ Control
    \/ AccessLoop
    \/ NetworkLoop
    \/ NetworkEnd
    \/ DefaultLoop
    \/ LoopEnd
    \/ Return
    \/ NextRecord

Spec == Init /\ [][Next]_vars

----------------------------------------------------------------------------
(* toLegacyString called on a value of its own. *)

\* the first n bytes of 00 11 22 ... ff
UUIDBytes(n) == [k \in 1..n |-> 17 * (k - 1)]

Leaves ==
    {Nil, Bool(TRUE), Bool(FALSE), Int64(7), Str("x"), DateTime(1000),
     Binary(0, <<0, 17, 255>>), Binary(5, <<1>>),
     ObjectID("0123456789abcdef01234567"), Timestamp(1, 2), Regex("^a", "i"),
     Decimal128("1.5")}
        \cup {Binary(4, UUIDBytes(n)) : n \in {0, 3, 9, 10, 15, 16}}

Keys == {"a", "k.dot", ".lead", ".a.b"}

EntryValues == {Str("x"), Int64(7), Nil, ShortUUID, Binary(5, <<1>>)}

Entries == {E(k, Str("x")) : k \in Keys} \cup {E("a", v) : v \in EntryValues}

Flat ==
    Leaves
        \cup Entries
        \cup {D(es) : es \in SeqsUpTo(Entries, MaxLen)}
        \cup {A(vs) : vs \in SeqsUpTo(EntryValues
                                \cup {D(<<E("a", Str("x")), E("k.dot", Int64(7))>>)},
                              MaxLen)}

Wrap(v) ==
    {D(<<E("a", v)>>), D(<<E("a", Str("x")), E("k.dot", v)>>), A(<<v>>), E("k.dot", v)}

RECURSIVE Wrapped(_)
Wrapped(n) ==
    IF n = 0 THEN Flat
    ELSE LET W == Wrapped(n - 1) IN W \cup UNION {Wrap(v) : v \in W}

RenderInputs == Wrapped(MaxDepth)

InitRender ==
    /\ val \in RenderInputs
    /\ out = NotRun
    /\ rpc = "ready"
    /\ doc = NoDoc
    /\ pre = NoDoc
    /\ arr = <<>>
    /\ idx = 1
    /\ remote = ZeroRemote
    /\ pc = "off"
    /\ prev = NoCall
    /\ err = "nil"

\* lines 98-154: the call returns, or aborts
Render ==
    /\ rpc = "ready"
    /\ LET r == toLegacyString(val) IN
        /\ out' = <<r>>
        /\ rpc' = IF r.ret.t = "panic" THEN "panic" ELSE "done"
    /\ UNCHANGED <<doc, pre, arr, idx, remote, pc, prev, val, err>>

NextRender == Render

SpecRender == InitRender /\ [][NextRender]_vars

----------------------------------------------------------------------------
(* What the claims are stated with. *)

Branches == {"CONTROL", "ACCESS", "NETWORK", "default"}

\* the call has returned
Returned == pc = "done"

\* the state right after lines 17-32: nothing but the message has added a token
JustBegun == pc \in Branches /\ idx = 1

RECURSIVE IsJoined(_, _)
\* text is the tokens in order with exactly one space between neighbours
IsJoined(text, tokens) ==
    IF tokens = <<>> THEN text = ""
    ELSE IF Len(tokens) = 1 THEN text = tokens[1]
    ELSE LET n == Len(tokens[1]) IN
         /\ Len(text) > n
         /\ SubSeq(text, 1, n) = tokens[1]
         /\ SubSeq(text, n + 1, n + 1) = " "
         /\ IsJoined(SubSeq(text, n + 2, Len(text)), Tail(tokens))

\* text begins with the token tok, which ends the text or is followed by a space
FirstTokenIs(text, tok) ==
    /\ Len(text) >= Len(tok)
    /\ SubSeq(text, 1, Len(tok)) = tok
    /\ Len(text) > Len(tok) => SubSeq(text, Len(tok) + 1, Len(tok) + 1) = " "

HasColon(s) == \E k \in 1..Len(s) : SubSeq(s, k, k) = ":"

\* the least place of a ':' in s (s has one)
FirstColon(s) ==
    CHOOSE k \in 1..Len(s) :
        SubSeq(s, k, k) = ":" /\ \A j \in 1..(k - 1) : SubSeq(s, j, j) # ":"

\* the text left of the first ':' of s, all of s when it has none
HostPart(s) == IF HasColon(s) THEN SubSeq(s, 1, FirstColon(s) - 1) ELSE s

\* the text between the first ':' of s and the second, or the end
PortPart(s) ==
    LET rest == SubSeq(s, FirstColon(s) + 1, Len(s)) IN HostPart(rest)

RemoteAttrs(d) == {k \in 1..Len(d.Attr) : d.Attr[k].Key = "remote"}

LastRemote(d) == d.Attr[CHOOSE k \in RemoteAttrs(d) : \A j \in RemoteAttrs(d) : j <= k]

----------------------------------------------------------------------------
(* C1 *)

\* the token the claim gives for a message, <<>> for none
ClaimedMessageToken(msg) ==
    CASE msg = "Connection ended" -> <<"end connection">>
      [] msg = "Connection accepted" -> <<"connection accepted">>
      [] msg = "Authentication succeeded" -> <<"Successfully authenticated">>
      [] msg = "Slow query" -> <<>>
      [] OTHER -> <<msg>>

\* C1: in every call, whatever the Component, the message contributes exactly the
\* token of the fixed mapping ("Slow query": none, any unlisted Msg: itself), that
\* token stays the first of the token list, and once the call has returned it is
\* the first token of Message.
C1_MessageToken ==
    /\ JustBegun => arr = ClaimedMessageToken(doc.Msg)
    /\ (pc \in Branches \cup {"join", "done"} /\ doc.Msg # "Slow query") =>
            /\ Len(arr) >= 1
            /\ <<arr[1]>> = ClaimedMessageToken(doc.Msg)
    /\ (Returned /\ doc.Msg # "Slow query") =>
            FirstTokenIs(doc.Message, ClaimedMessageToken(doc.Msg)[1])

\* a default-rule call that returned a mapped message token followed by others
C1_Witness ==
    /\ Returned
    /\ doc.Component = "COMMAND"
    /\ doc.Msg = "Authentication succeeded"
    /\ Len(arr) >= 2
    /\ pre.Message = "stale line"

----------------------------------------------------------------------------
(* C7 *)

\* C7: a call that returns with zero tokens (which takes Msg "Slow query" and a
\* component rule that added none) leaves Message exactly as it was and returns
\* no error; every other call that returns has overwritten Message with the
\* tokens joined by single spaces.
C7_MessageFrame ==
    Returned =>
        /\ err = "nil"
        /\ (arr = <<>>) => (doc.Msg = "Slow query" /\ doc.Message = pre.Message)
        /\ (arr # <<>>) => IsJoined(doc.Message, arr)
        /\ (doc.Msg # "Slow query") => arr # <<>>

\* a Slow query record with nothing to render comes back with its old Message
C7_Witness ==
    /\ Returned
    /\ doc.Msg = "Slow query"
    /\ arr = <<>>
    /\ pre.Message = "stale line"
    /\ doc.Message = "stale line"

----------------------------------------------------------------------------
(* C9 *)

\* the call has put a Remote of its own on the record
Attached == Returned /\ doc.Remote # pre.Remote

KeyedAttrs(d, keys) == {k \in 1..Len(d.Attr) : d.Attr[k].Key \in keys}

\* C9: every Remote a call attaches has exactly one of Accepted and Ended equal to
\* 1 and the other 0, Ended being 1 exactly when Msg is "Connection ended",
\* however many remote attributes the record has and in whatever order; and under
\* Msg "Connection ended" a connectionId attribute adds no token, while each
\* connectionCount n adds "(n connections now open)" and the attached Remote
\* carries Conns = n.
C9_RemoteFlags ==
    /\ Attached =>
        LET r == doc.Remote[1] IN
        /\ <<r.Accepted, r.Ended>> \in {<<1, 0>>, <<0, 1>>}
        /\ r.Ended = 1 <=> doc.Msg = "Connection ended"
    /\ (Returned /\ doc.Component = "NETWORK" /\ doc.Msg = "Connection ended") =>
        /\ \A k \in 1..Len(arr) : arr[k] = "" \/ SubSeq(arr[k], 1, 1) # "#"
        /\ Len(arr) = 1 + Cardinality(KeyedAttrs(doc, {"remote", "client",
                                                        "connectionCount", "doc"}))
        /\ \A k \in KeyedAttrs(doc, {"connectionCount"}) :
                /\ \E j \in 1..Len(arr) :
                      arr[j] = "(" \o ToString(doc.Attr[k].Value.n)
                                   \o " connections now open)"
                /\ Attached => doc.Remote[1].Conns = doc.Attr[k].Value.n

\* the "Connection ended" scenario: remote then connectionCount
C9_Witness ==
    /\ Attached
    /\ doc.Msg = "Connection ended"
    /\ doc.Attr = <<E("remote", Str("127.0.0.1:54321")), E("connectionCount", Int64(3))>>
    /\ doc.Message = "end connection 127.0.0.1:54321 (3 connections now open)"
    /\ doc.Remote[1].Ended = 1
    /\ doc.Remote[1].Accepted = 0
    /\ doc.Remote[1].Conns = 3

----------------------------------------------------------------------------
(* C10 *)

RemoteStrings(d) == \A k \in RemoteAttrs(d) : IsString(d.Attr[k].Value)

SomeRemoteWithoutColon(d) == \E k \in RemoteAttrs(d) : ~HasColon(d.Attr[k].Value.s)

\* a remote attribute without ':' is at place idx or after it
BadRemoteAhead ==
    \E k \in RemoteAttrs(doc) : k >= idx /\ ~HasColon(doc.Attr[k].Value.s)

\* C10: on a NETWORK record whose remote values are strings, a remote value with
\* no ':' makes the call abort at that attribute: the loop never gets past it, the
\* call never returns, and the aborted call has written neither Message nor
\* Remote; when every remote value has a ':' the call does not abort, and it takes
\* Value as the text before the first ':' and Port as the text between the first
\* ':' and the second.
C10_MalformedRemote ==
    (doc.Component = "NETWORK" /\ RemoteStrings(doc) /\ pc # "off") =>
        IF SomeRemoteWithoutColon(doc)
        THEN /\ pc \in {"ready", "NETWORK", "panic"}
             /\ pc = "NETWORK" => BadRemoteAhead
             /\ pc = "panic" =>
                    /\ doc = pre
                    /\ doc.Attr[idx].Key = "remote"
                    /\ ~HasColon(doc.Attr[idx].Value.s)
        ELSE /\ pc # "panic"
             /\ (pc \in {"join", "done"} /\ RemoteAttrs(doc) # {}) =>
                    /\ remote.Value = HostPart(LastRemote(doc).Value.s)
                    /\ remote.Port = PortPart(LastRemote(doc).Value.s)

\* the call aborted on remote "localhost" and the record is as it was
C10_Witness ==
    /\ pc = "panic"
    /\ doc.Component = "NETWORK"
    /\ doc.Attr = <<E("connectionId", Int64(7)), E("remote", Str("localhost"))>>
    /\ pre.Message = "stale line"
    /\ doc.Message = "stale line"
    /\ doc.Remote = <<StaleRemote>>

----------------------------------------------------------------------------
(* C2 *)

\* C2 as stated: after a call on a record without a Remote, Remote is set exactly
\* when Attr holds a remote attribute with a non-empty host, for every Component
\* and attribute order.
C2_AsStated ==
    (Returned /\ pre.Remote = NilRemote) =>
        (doc.Remote # NilRemote <=>
            \E k \in RemoteAttrs(doc) :
                /\ IsString(doc.Attr[k].Value)
                /\ HostPart(doc.Attr[k].Value.s) # "")

\* C2, amended: after a call that returns on a record without a Remote, Remote is
\* set exactly when the Component is NETWORK and the last remote attribute of Attr
\* has a non-empty host, and it then carries that host; under any other Component
\* Remote stays absent.
C2_RemoteSet ==
    (Returned /\ pre.Remote = NilRemote) =>
        /\ doc.Remote # NilRemote <=>
                /\ doc.Component = "NETWORK"
                /\ RemoteAttrs(doc) # {}
                /\ HostPart(LastRemote(doc).Value.s) # ""
        /\ doc.Remote # NilRemote =>
                doc.Remote[1].Value = HostPart(LastRemote(doc).Value.s)

\* a NETWORK record with a good remote followed by one with an empty host comes
\* back without a Remote
C2_Witness ==
    /\ Returned
    /\ doc.Component = "NETWORK"
    /\ doc.Attr = <<E("remote", Str("127.0.0.1:54321")), E("remote", Str(":80"))>>
    /\ pre.Remote = NilRemote
    /\ doc.Remote = NilRemote

----------------------------------------------------------------------------
(* C3 *)

Inputs(d) == <<d.Component, d.Msg, d.Attr>>

\* two calls have returned, on records with the same (Component, Msg, Attr)
SameInputs == Returned /\ prev # NoCall /\ Inputs(pre) = Inputs(prev[1].pre)

\* C3 as stated: two records that agree on (Component, Msg, Attr) end with the
\* same Message and the same Remote, whatever Message and Remote held before.
C3_AsStated ==
    SameInputs =>
        /\ doc.Message = prev[1].post.Message
        /\ doc.Remote = prev[1].post.Remote

\* C3, amended: two calls that return on records that agree on (Component, Msg,
\* Attr) build the same tokens; they end with the same Message when there is a
\* token and each with the Message it had when there is none; they end with the
\* same Remote when a Remote is attached (NETWORK with a host captured) and each
\* with the Remote it had otherwise; a second call on the record a first call
\* returned leaves the same Message; and no call modifies Component, Msg or Attr.
C3_Pure ==
    /\ Inputs(doc) = Inputs(pre)
    /\ SameInputs =>
        /\ arr = prev[1].arr
        /\ IF arr # <<>>
           THEN doc.Message = prev[1].post.Message
           ELSE doc.Message = pre.Message /\ prev[1].post.Message = prev[1].pre.Message
        /\ IF doc.Component = "NETWORK" /\ remote.Value # ""
           THEN doc.Remote = prev[1].post.Remote /\ doc.Remote = <<remote>>
           ELSE doc.Remote = pre.Remote /\ prev[1].post.Remote = prev[1].pre.Remote
        /\ pre = prev[1].post => doc.Message = prev[1].post.Message

\* a fresh and a stale record with the same NETWORK inputs came back alike
C3_Witness ==
    /\ SameInputs
    /\ doc.Component = "NETWORK"
    /\ prev[1].pre.Message = ""
    /\ pre.Message = "stale line"
    /\ pre.Remote = <<StaleRemote>>
    /\ doc.Message = prev[1].post.Message
    /\ doc.Message = "connection accepted from 127.0.0.1:54321"
    /\ doc.Remote = prev[1].post.Remote
    /\ doc.Remote # pre.Remote

----------------------------------------------------------------------------
(* C4 *)

AcceptedScenario ==
    /\ Returned
    /\ doc.Component = "NETWORK"
    /\ doc.Msg = "Connection accepted"
    /\ doc.Attr = <<E("remote", Str("127.0.0.1:54321")), E("connectionId", Int64(7))>>

ScenarioRemote ==
    [Value |-> "127.0.0.1", Port |-> "54321", Accepted |-> 1, Ended |-> 0, Conns |-> 0]

\* C4 as stated: the scenario's Message is exactly "from 127.0.0.1:54321 #7".
C4_AsStated ==
    AcceptedScenario =>
        /\ doc.Message = "from 127.0.0.1:54321 #7"
        /\ doc.Remote = <<ScenarioRemote>>

\* C4, amended: for a NETWORK record with Msg "Connection accepted" and Attr
\* [remote: "127.0.0.1:54321", connectionId: 7] the call sets Message to exactly
\* "connection accepted from 127.0.0.1:54321 #7" (the message token comes first)
\* and Remote to Value "127.0.0.1", Port "54321", Accepted 1, Ended 0.
C4_Scenario ==
    AcceptedScenario =>
        /\ doc.Message = "connection accepted from 127.0.0.1:54321 #7"
        /\ doc.Remote = <<ScenarioRemote>>

\* the scenario, on a record that held an older Message and Remote
C4_Witness == AcceptedScenario /\ pre.Message = "stale line" /\ pre.Remote = <<StaleRemote>>

----------------------------------------------------------------------------
(* C8 *)

Reverse(q) == [k \in 1..Len(q) |-> q[Len(q) + 1 - k]]

RECURSIVE Flatten(_)
Flatten(qs) == IF qs = <<>> THEN <<>> ELSE Head(qs) \o Flatten(Tail(qs))

\* the tokens after the message token
ComponentTokens(msg, tokens) ==
    SubSeq(tokens, Len(ClaimedMessageToken(msg)) + 1, Len(tokens))

\* the token list one attribute adds under the rule that runs for d
TokensOf(d, attr) ==
    CASE Branch(d) = "ACCESS" -> AccessTokens(attr)
      [] Branch(d) = "NETWORK" -> NetworkAttr(attr, d.Msg, ZeroRemote).toks
      [] Branch(d) = "default" -> DefaultAttr(attr).toks

\* two calls have returned, the second on the first's attributes reordered
Reordered ==
    /\ Returned
    /\ prev # NoCall
    /\ pre.Component = prev[1].pre.Component
    /\ pre.Msg = prev[1].pre.Msg
    /\ pre.Attr \in Reorderings(prev[1].pre.Attr)

\* the second call ran on the first's attributes in the opposite order
Reversed == Reordered /\ pre.Attr = Reverse(prev[1].pre.Attr)

RuleKeys == {"pid", "port", "architecture", "host"}

\* the attributes the CONTROL token reads occur once each at most
RuleKeysOnce(d) ==
    \A a, b \in KeyedAttrs(d, RuleKeys) : d.Attr[a].Key = d.Attr[b].Key => a = b

\* C8, its ordering half: under the ACCESS, NETWORK and default rules the tokens
\* after the message token are the tokens of the attributes in Attr order, at most
\* one per attribute, repeated keys included; so a record with its attributes
\* reversed gets the same tokens reversed.
C8_OrderHalf ==
    /\ (Returned /\ Branch(doc) \in {"ACCESS", "NETWORK", "default"}) =>
        /\ \A k \in 1..Len(doc.Attr) : Len(TokensOf(doc, doc.Attr[k])) <= 1
        /\ ComponentTokens(doc.Msg, arr)
              = Flatten([k \in 1..Len(doc.Attr) |-> TokensOf(doc, doc.Attr[k])])
    /\ (Reversed /\ Branch(pre) \in {"ACCESS", "NETWORK", "default"}
                 /\ Branch(prev[1].pre) = Branch(pre)) =>
        ComponentTokens(doc.Msg, arr)
            = Reverse(ComponentTokens(doc.Msg, prev[1].arr))

\* C8 as stated: the ordering half, and for CONTROL with a host attribute a single
\* token that does not depend on the order of Attr.
C8_AsStated ==
    /\ C8_OrderHalf
    /\ (Reordered /\ Branch(pre) = "CONTROL" /\ Branch(prev[1].pre) = "CONTROL") =>
        arr = prev[1].arr

\* C8, amended: the ordering half as stated; for CONTROL with a non-null host the
\* rule adds a single token, and it does not depend on the order of Attr provided
\* none of the keys pid, port, architecture and host is repeated (of a repeated
\* key the last entry is the one rendered).
C8_Order ==
    /\ C8_OrderHalf
    /\ (Returned /\ Branch(doc) = "CONTROL") =>
        Len(ComponentTokens(doc.Msg, arr)) = 1
    /\ (Reordered /\ Branch(pre) = "CONTROL" /\ RuleKeysOnce(pre)) =>
        /\ Branch(prev[1].pre) = "CONTROL"
        /\ arr = prev[1].arr

\* an ACCESS record and the same with its two attributes swapped
C8_Witness ==
    /\ Reversed
    /\ doc.Component = "ACCESS"
    /\ prev[1].post.Message = "Successfully authenticated on admin as principal alice"
    /\ doc.Message = "Successfully authenticated as principal alice on admin"

----------------------------------------------------------------------------
(* C5 *)

\* a value toLegacyString has no case for: a binary subtype other than 0 and 4,
\* or a type outside the switch
Unrecognized(v) ==
    \/ v.t = "Binary" /\ v.Subtype \notin {0, 4}
    \/ v.t = "Decimal128"

\* C5: toLegacyString is total, it returns for every value and never aborts, a
\* UUID-subtype binary shorter than 16 bytes included; an unrecognized type or
\* binary subtype comes back unmodified, with a diagnostic.
C5_Total ==
    /\ rpc # "panic"
    /\ (rpc = "done" /\ Unrecognized(val)) =>
            /\ out[1].ret = val
            /\ out[1].log # <<>>

----------------------------------------------------------------------------
(* C6 *)

HasDot(key) == \E k \in 1..Len(key) : SubSeq(key, k, k) = "."

BeginsWithDot(key) == key # "" /\ SubSeq(key, 1, 1) = "."

Quoted(key) == "\"" \o key \o "\""

\* what toLegacyString makes of an entry's value, as %v prints it
Rendered(v) == FmtV(toLegacyString(v).ret)

\* the direct call returned, on a document (bson.D)
DocumentDone == rpc = "done" /\ val.t = "D"

\* the direct call returned, on a single document element (bson.E)
ElementDone == rpc = "done" /\ val.t = "E"

\* C6 as stated: every document renders as " { k1:v1, k2:v2, ... } ", padded with
\* one space on both sides, entries joined by ", ", each key:render(value), a key
\* holding a '.' anywhere being wrapped in double quotes.
C6_AsStated ==
    DocumentDone =>
        out[1].ret.s =
            " { "
              \o stringsJoin([k \in 1..Len(val.es) |->
                    (IF HasDot(val.es[k].Key) THEN Quoted(val.es[k].Key)
                     ELSE val.es[k].Key) \o ":" \o Rendered(val.es[k].Value)], ", ")
              \o " } "

\* C6, amended: a document (bson.D) renders as " { k1:v1, k2:v2, ... }", with one
\* leading space and no trailing space, entries joined by ", ", each
\* key:render(value) with the key never quoted; a single document element (bson.E)
\* renders as " { k:v } ", padded on both sides, its key wrapped in double quotes
\* exactly when it holds a '.' and does not begin with one.
C6_Layout ==
    /\ DocumentDone =>
        out[1].ret.s =
            " { "
              \o stringsJoin([k \in 1..Len(val.es) |->
                    val.es[k].Key \o ":" \o Rendered(val.es[k].Value)], ", ")
              \o " }"
    /\ ElementDone =>
        out[1].ret.s =
            " { "
              \o (IF HasDot(val.Key) /\ ~BeginsWithDot(val.Key) THEN Quoted(val.Key)
                  ELSE val.Key)
              \o ":" \o Rendered(val.Value) \o " } "

\* a two-entry document whose first key holds a '.'
C6_Witness ==
    /\ DocumentDone
    /\ val = D(<<E("k.dot", Str("x")), E("a", Int64(7))>>)
    /\ out[1].ret.s = " { k.dot: \"x\", a:7 }"

=============================================================================
